---- MODULE Spec2Model ----
(***************************************************************************)
(* Model of the Fontwerk profile checks of                                 *)
(* Lib/fontbakery/profiles/fontwerk.py:                                    *)
(*   com_fontwerk_check_weight_class_fvar                                  *)
(*   is_covered_in_stat / com_fontwerk_check_inconsistencies_between_...   *)
(*   com_fontwerk_check_interpolation_issues (with add_dict_set,           *)
(*   close_enough, get_degree_of_line, normalize_degree)                   *)
(*                                                                         *)
(* A check is a Python generator: what it yields is the sequence           *)
(* `results`; the value of a `return <expr>` inside a generator is not     *)
(* yielded, it is kept here in `returned`.                                 *)
(***************************************************************************)
EXTENDS Integers, Sequences, FiniteSets

\* ------------------------------------------------------------------ bounds
MaxAxes == 2          \* number of fvar axes
MaxInstances == 2     \* number of fvar named instances
MaxStatRecords == 2   \* number of STAT AxisValue records
NumGlyphs == 2        \* length of the glyph order

VARIABLES
    check,            \* which check this run executes
    pc,               \* "start" | "loop" | "compare" | "done" | "error"
    axes,             \* fvar.axes: sequence of [axisTag, defaultValue]
    usWeightClass,    \* OS/2.usWeightClass
    hasSTAT,          \* 'STAT' in ttFont
    AxisValue,        \* STAT.table.AxisValueArray.AxisValue
    instances,        \* fvar.instances: sequence of [subfamilyNameID, coordinates]
    results,          \* what the generator has yielded so far
    returned,         \* value of a `return <expr>` of the generator (<<>>: none)
    font_instances,   \* the dict of line 239, as its insertion-ordered items
    g_index,          \* how many names of the glyph order the loop has taken
    glyphs,           \* the list `glyphs` of the glyph being compared (shape ids)
    errs,             \* the dict `errs`, as its insertion-ordered items
    hashSeed,         \* the interpreter's string-hash seed of this run
    rerun,            \* the caller runs the check once more on the same font
    glyfRead,         \* glyph outlines already read, kept for the second run
    prevResults       \* what the previous run on the same font yielded

vars == <<check, pc, axes, usWeightClass, hasSTAT, AxisValue, instances, results,
          returned, font_instances, g_index, glyphs, errs, hashSeed, rerun,
          glyfRead, prevResults>>

\* ------------------------------------------------------------ font tables
\* Python's None is the empty tuple, a value v is <<v>>.
None == <<>>

Some(v) == <<v>>

AxisTags == {"wght", "wdth"}

\* fvar default values are reals; they are kept in halves (801 is 400.5).
DefaultValues == {-1, 799, 800, 801, 1400}

WeightClasses == {0, 399, 400, 401, 700}

RECURSIVE SeqsUpTo(_, _)
SeqsUpTo(S, n) ==
    IF n = 0 THEN {<<>>}
    ELSE LET shorter == SeqsUpTo(S, n - 1)
         IN shorter \cup {Append(s, x) : s \in {t \in shorter : Len(t) = n - 1}, x \in S}

Axis == [axisTag : AxisTags, defaultValue : DefaultValues]

\* name.getDebugName(nameID): None when the name table has no such record.
getDebugName(nameID) ==
    CASE nameID = 256 -> Some("Regular")
      [] nameID = 257 -> Some("Bold")
      [] OTHER -> None

NameIDs == {256, 257, 258}

\* STAT.table.DesignAxisRecord.Axis[i].AxisTag
DesignAxisTag(AxisIndex) == IF AxisIndex = 0 THEN "wght" ELSE "wdth"

CoordValues == {400, 700}

\* An AxisValue record as is_covered_in_stat reads it. Every record carries the
\* three value fields, so that the Format guards decide which of them count.
AxisValueRecords ==
    { [AxisIndex |-> a, Format |-> f, Value |-> t[1], LinkedValue |-> t[2],
       NominalValue |-> t[3]] :
        a \in {0, 1}, f \in 1..4, t \in {<<400, 700, 700>>, <<700, 700, 400>>} }

\* The tables the STAT check is run on: every format on the wght axis, formats 1
\* and 4 on the wdth axis.
StatRecords == {r \in AxisValueRecords : r.AxisIndex = 0 \/ r.Format \in {1, 4}}

\* ins.coordinates: a dict, as its items in insertion order
Coordinates ==
    {<< <<"wght", w>> >> : w \in CoordValues}
    \cup {<< <<"wght", 400>>, <<"wdth", 700>> >>}

NamedInstance == [subfamilyNameID : NameIDs, coordinates : Coordinates]

\* ------------------------------------------------------------- results
Fail(code, detail) == [status |-> "FAIL", code |-> code, detail |-> detail]

Pass(text) == [status |-> "PASS", code |-> "", detail |-> <<text>>]

\* ------------------------------------------- com.fontwerk/check/weight_class_fvar
\* int(x) truncates toward zero; x is in halves.
IntRounds(halves) == (halves + 1) \div 2

int(halves) == IF halves >= 0 THEN halves \div 2 ELSE -((-halves) \div 2)

\* {a.axisTag: a.defaultValue for a in fvar.axes}.get(tag, None):
\* a later axis of the same tag replaces an earlier one.
RECURSIVE default_axis_values_get(_, _)
default_axis_values_get(axs, tag) ==
    IF axs = <<>> THEN None
    ELSE IF axs[Len(axs)].axisTag = tag THEN Some(axs[Len(axs)].defaultValue)
    ELSE default_axis_values_get(SubSeq(axs, 1, Len(axs) - 1), tag)

com_fontwerk_check_weight_class_fvar(axs, os2_value) ==
    LET fvar_value == default_axis_values_get(axs, "wght")
    IN IF fvar_value = None THEN <<>>
       ELSE IF os2_value # int(fvar_value[1])
            THEN << Fail("bad-weight-class", <<os2_value, fvar_value[1]>>) >>
            ELSE << Pass("matches") >>

\* --------------------------------- com.fontwerk/check/inconsistencies_between_fvar_stat
\* stat_value of one record (lines 165-178)
stat_value(ax_value) ==
    (IF ax_value.Format \in {1, 3} THEN <<ax_value.Value>> ELSE <<>>)
    \o (IF ax_value.Format = 3 THEN <<ax_value.LinkedValue>> ELSE <<>>)
    \o (IF ax_value.Format = 2 THEN <<ax_value.NominalValue>> ELSE <<>>)

InSeq(x, s) == \E i \in 1..Len(s) : s[i] = x

IsCoveredNoLinked(stat, axis_tag, value) ==
    \E i \in 1..Len(stat) :
        /\ DesignAxisTag(stat[i].AxisIndex) = axis_tag
        /\ stat[i].Format \in {1, 2, 3}
        /\ value = (IF stat[i].Format = 2 THEN stat[i].NominalValue ELSE stat[i].Value)

RECURSIVE is_covered_in_stat(_, _, _)
is_covered_in_stat(stat, axis_tag, value) ==
    IF stat = <<>> THEN FALSE
    ELSE LET ax_value == Head(stat)
         IN IF axis_tag # DesignAxisTag(ax_value.AxisIndex)
            THEN is_covered_in_stat(Tail(stat), axis_tag, value)
            ELSE IF InSeq(value, stat_value(ax_value)) THEN TRUE
            ELSE is_covered_in_stat(Tail(stat), axis_tag, value)

\* the inner loop of lines 215-220 over the items of ins.coordinates
RECURSIVE CoordinateFindings(_, _, _, _)
CoordinateFindings(stat, instance_name, k, items) ==
    IF items = <<>> THEN <<>>
    ELSE LET axis_tag == Head(items)[1]
             value == Head(items)[2]
             rest == CoordinateFindings(stat, instance_name, k, Tail(items))
         IN IF ~is_covered_in_stat(stat, axis_tag, value)
            THEN << Fail("missing-fvar-instance-axis-value",
                         <<k, instance_name, axis_tag, value>>) >> \o rest
            ELSE rest

\* the loop of lines 206-220; k is the position of the instance in fvar
RECURSIVE InstanceFindings(_, _, _)
InstanceFindings(stat, inss, k) ==
    IF k > Len(inss) THEN <<>>
    ELSE LET ins == inss[k]
             instance_name == getDebugName(ins.subfamilyNameID)
         IN (IF instance_name = None
             THEN << Fail("missing-name-id", <<k, ins.subfamilyNameID>>) >>
             ELSE CoordinateFindings(stat, instance_name[1], k, ins.coordinates))
            \o InstanceFindings(stat, inss, k + 1)

\* ------------------------------------------------------------------ actions
Idle ==
    /\ font_instances = <<>> /\ g_index = 0 /\ glyphs = <<>> /\ errs = <<>>
    /\ hashSeed = 0 /\ rerun = FALSE /\ glyfRead = <<>> /\ prevResults = <<>>

InitWeight ==
    /\ check = "weight_class_fvar"
    /\ pc = "start"
    /\ axes \in SeqsUpTo(Axis, MaxAxes)
    /\ usWeightClass \in WeightClasses
    /\ hasSTAT = FALSE /\ AxisValue = <<>> /\ instances = <<>>
    /\ results = <<>> /\ returned = None
    /\ Idle

RunWeightClassFvar ==
    /\ check = "weight_class_fvar" /\ pc = "start"
    /\ results' = com_fontwerk_check_weight_class_fvar(axes, usWeightClass)
    /\ pc' = "done"
    /\ UNCHANGED <<check, axes, usWeightClass, hasSTAT, AxisValue, instances,
                   returned, font_instances, g_index, glyphs, errs, hashSeed,
                   rerun, glyfRead, prevResults>>

NextWeight == RunWeightClassFvar

SpecWeight == InitWeight /\ [][NextWeight]_vars

InitStat ==
    /\ check = "inconsistencies_between_fvar_stat"
    /\ pc = "start"
    /\ axes = <<>> /\ usWeightClass = 400
    /\ hasSTAT \in BOOLEAN
    /\ AxisValue \in (IF hasSTAT THEN SeqsUpTo(StatRecords, MaxStatRecords)
                      ELSE {<<>>})
    /\ instances \in SeqsUpTo({i \in NamedInstance : i.subfamilyNameID # 257},
                              MaxInstances)
    /\ results = <<>> /\ returned = None
    /\ Idle

\* line 198: `return FAIL, Message(...)` in a generator ends it without a yield
StatMissing ==
    /\ check = "inconsistencies_between_fvar_stat" /\ pc = "start"
    /\ ~hasSTAT
    /\ returned' = Some(Fail("missing-stat-table", <<>>))
    /\ results' = <<>>
    /\ pc' = "done"
    /\ UNCHANGED <<check, axes, usWeightClass, hasSTAT, AxisValue, instances,
                   font_instances, g_index, glyphs, errs, hashSeed, rerun,
                   glyfRead, prevResults>>

StatPresent ==
    /\ check = "inconsistencies_between_fvar_stat" /\ pc = "start"
    /\ hasSTAT
    /\ results' = InstanceFindings(AxisValue, instances, 1)
    /\ pc' = "done"
    /\ UNCHANGED <<check, axes, usWeightClass, hasSTAT, AxisValue, instances,
                   returned, font_instances, g_index, glyphs, errs, hashSeed,
                   rerun, glyfRead, prevResults>>

NextStat == StatMissing \/ StatPresent

SpecStat == InitStat /\ [][NextStat]_vars

\* ------------------------------------------- com.fontwerk/check/interpolation_issues
\* A glyph of an instance font, as the check reads it: font_instance['glyf'].get
\* gives None or an object whose attributes coordinates,
\* numberOfContours, isComposite(), components and endPtsOfContours are read one by
\* one. An attribute the object does not have reads as the empty value (<<>>, 0).
\* A simple outline has points and contour ends; a composite one has components,
\* no points, and the contour count -1 the glyf table stores for it.
\* The final segments of the contours of the shapes X, Y, Z, W have the bearings
\*    X: 0 and 180       Y: 45 and -135       Z: 46.005 and 180
\*    W: -1.975 and -136.005
Simple(pts, ends) ==
    [coordinates |-> pts, endPtsOfContours |-> ends, numberOfContours |-> Len(ends),
     isComposite |-> FALSE, components |-> 0]

Composite(comps) ==
    [coordinates |-> <<>>, endPtsOfContours |-> <<>>, numberOfContours |-> -1,
     isComposite |-> TRUE, components |-> comps]

PointsX == << <<0, 0>>, <<1, 0>>, <<5, 5>>, <<4, 5>> >>

Shape(id) ==
    CASE id = "empty" -> Simple(<<>>, <<>>)
      [] id = "X" -> Simple(PointsX, <<1, 3>>)
      [] id = "Y" -> Simple(<< <<0, 0>>, <<1, 1>>, <<5, 5>>, <<4, 4>> >>, <<1, 3>>)
      [] id = "Z" -> Simple(<< <<0, 0>>, <<28, 29>>, <<5, 5>>, <<4, 5>> >>, <<1, 3>>)
      [] id = "W" ->
            Simple(<< <<0, 0>>, <<29, -1>>, <<5, 5>>, <<-24, -23>> >>, <<1, 3>>)
      [] id = "five_points" -> Simple(PointsX \o << <<3, 5>> >>, <<1, 4>>)
      [] id = "one_contour" -> Simple(PointsX, <<3>>)
      [] id = "composite_a" -> Composite(1)
      [] id = "composite_b" -> Composite(2)

\* None: the glyph is absent from the instance's glyf table
Absent == "None"

ShapeIds == {Absent, "empty", "X", "Y", "Z", "W", "five_points",
             "one_contour", "composite_a", "composite_b"}

\* the glyph order: glyph names are 1..NumGlyphs
GlyphOrder == [i \in 1..NumGlyphs |-> i]

\* add_dict_set on a dict kept as its items in insertion order
add_dict_set(d, item_dict, item_set) ==
    IF \E i \in 1..Len(d) : d[i].title = item_dict
    THEN [i \in 1..Len(d) |->
            IF d[i].title = item_dict
            THEN [title |-> item_dict, names |-> d[i].names \cup {item_set}]
            ELSE d[i]]
    ELSE Append(d, [title |-> item_dict, names |-> {item_set}])

Abs(x) == IF x < 0 THEN -x ELSE x

\* the tolerance of lines 293 and 297, in degrees
ToleranceDeg == 45

\* Angles are in thousandths of a degree.
\* math.isclose(a, b, abs_tol=t) is |a - b| <= max(1e-9 * max(|a|, |b|), t); with
\* |a|, |b| <= 360 and t = 45 the relative term never decides.
CloseEnoughStrict(value_a, value_b, tolerance) == Abs(value_a - value_b) < tolerance

close_enough(value_a, value_b, tolerance) == Abs(value_a - value_b) <= tolerance

\* degrees(atan2(y, x)), rounded to a thousandth of a degree, on the vectors that
\* the final segments of the shapes take
atan2_degrees(y, x) ==
    CASE <<x, y>> = <<1, 0>> -> 0
      [] <<x, y>> = <<-1, 0>> -> 180000
      [] <<x, y>> = <<1, 1>> -> 45000
      [] <<x, y>> = <<-1, -1>> -> -135000
      [] <<x, y>> = <<28, 29>> -> 46005
      [] <<x, y>> = <<29, -1>> -> -1975
      [] <<x, y>> = <<-29, -28>> -> -136005

get_degree_of_line(point_a, point_b) ==
    LET x == point_b[1] - point_a[1]
        y == point_b[2] - point_a[2]
    IN atan2_degrees(y, x)

normalize_degree(deg) == IF deg < 0 THEN deg + 360000 ELSE deg

\* seq[i] of a Python list: a negative index counts from the end; the result is
\* <<item>>, or None for an IndexError
PyIndex(seq, i) ==
    IF i >= 0 /\ i < Len(seq) THEN Some(seq[i + 1])
    ELSE IF i < 0 /\ -i <= Len(seq) THEN Some(seq[Len(seq) + i + 1])
    ELSE None

\* lines 239-243: the dict assignment font_instances[subfamilyname] = instance_font.
\* An instance font is named by the position k of the fvar instance whose
\* coordinates it was instantiated at.
DictSet(d, key, value) ==
    IF \E i \in 1..Len(d) : d[i].key = key
    THEN [i \in 1..Len(d) |-> IF d[i].key = key THEN [key |-> key, font |-> value]
                                                 ELSE d[i]]
    ELSE Append(d, [key |-> key, font |-> value])

RECURSIVE MaterializeFrom(_, _, _)
MaterializeFrom(d, inss, k) ==
    IF k > Len(inss) THEN d
    ELSE MaterializeFrom(DictSet(d, getDebugName(inss[k].subfamilyNameID), k),
                         inss, k + 1)

\* line 251
points_set(gl) ==
    {Len(Shape(gl[i]).coordinates) :
        i \in {j \in 1..Len(gl) : gl[j] # Absent /\ Shape(gl[j]).coordinates # <<>>}}

\* line 261
contours_set(gl) ==
    {Shape(gl[i]).numberOfContours :
        i \in {j \in 1..Len(gl) : gl[j] # Absent /\ Shape(gl[j]).numberOfContours # 0}}

\* line 266; g.isComposite() on None raises AttributeError
composite_raises(gl) == \E i \in 1..Len(gl) : gl[i] = Absent

composite_set(gl) == {Shape(gl[i]).isComposite : i \in 1..Len(gl)}

\* line 271
components_set(gl) ==
    {Shape(gl[i]).components :
        i \in {j \in 1..Len(gl) : gl[j] # Absent /\ Shape(gl[j]).components # 0}}

\* lines 284-299 for one pair (g, previous_g), from contour c on:
\* "error" (an IndexError), "flag" (line 298, then break) or "ok"
RECURSIVE ContourScan(_, _, _)
ContourScan(g, previous_g, c) ==
    IF c > Len(g.endPtsOfContours) THEN "ok"
    ELSE LET n == g.endPtsOfContours[c]
             end_point == PyIndex(g.coordinates, n)
             before_end_point == PyIndex(g.coordinates, n - 1)
             pre_end_point == PyIndex(previous_g.coordinates, n)
             pre_before_end_point == PyIndex(previous_g.coordinates, n - 1)
         IN IF None \in {end_point, before_end_point, pre_end_point,
                         pre_before_end_point}
            THEN "error"
            ELSE LET deg == get_degree_of_line(before_end_point[1], end_point[1])
                     pre_deg == get_degree_of_line(pre_before_end_point[1],
                                                   pre_end_point[1])
                 IN IF close_enough(deg, pre_deg, ToleranceDeg * 1000)
                    THEN ContourScan(g, previous_g, c + 1)
                    ELSE IF ~close_enough(normalize_degree(deg),
                                          normalize_degree(pre_deg),
                                          ToleranceDeg * 1000)
                    THEN "flag"
                    ELSE ContourScan(g, previous_g, c + 1)

\* lines 276-299 from list position i (1-based) on; the break of line 299 leaves
\* the contour loop only, the next pair of instances is still compared
RECURSIVE DirectionScan(_, _, _)
DirectionScan(gl, i, flagged) ==
    IF i > Len(gl) THEN (IF flagged THEN "flag" ELSE "ok")
    ELSE LET r == ContourScan(Shape(gl[i]), Shape(gl[i - 1]), 1)
         IN IF r = "error" THEN "error"
            ELSE DirectionScan(gl, i + 1, flagged \/ r = "flag")

TitlePoints == "Differences in 'coordinates' (number of points)"

TitleContours == "Differences in 'numberOfContours'"

TitleComposite == "Differences in 'isComposite'"

TitleComponents == "Differences in 'components'"

TitleDirection == "Differences in end point direction (more than 45 degree)"

\* The body of the loop of line 246 for the list `glyphs`: the title the glyph is
\* added under, "" when it is added under none, "error" when an exception ends
\* the check.
GlyphOutcomeContoursFirst(gl) ==
    IF points_set(gl) = {} THEN ""
    ELSE IF Cardinality(contours_set(gl)) > 1 THEN TitleContours
    ELSE IF Cardinality(points_set(gl)) > 1 THEN TitlePoints
    ELSE IF composite_raises(gl) THEN "error"
    ELSE IF Cardinality(composite_set(gl)) > 1 THEN TitleComposite
    ELSE IF Cardinality(components_set(gl)) > 1 THEN TitleComponents
    ELSE LET r == DirectionScan(gl, 2, FALSE)
         IN IF r = "error" THEN "error"
            ELSE IF r = "flag" THEN TitleDirection ELSE ""

GlyphOutcome(gl) ==
    IF points_set(gl) = {} THEN ""
    ELSE IF Cardinality(points_set(gl)) > 1 THEN TitlePoints
    ELSE IF Cardinality(contours_set(gl)) > 1 THEN TitleContours
    ELSE IF composite_raises(gl) THEN "error"
    ELSE IF Cardinality(composite_set(gl)) > 1 THEN TitleComposite
    ELSE IF Cardinality(components_set(gl)) > 1 THEN TitleComponents
    ELSE LET r == DirectionScan(gl, 2, FALSE)
         IN IF r = "error" THEN "error"
            ELSE IF r = "flag" THEN TitleDirection ELSE ""

\* list(a_set) of glyph names: the order follows the names' hashes, which the
\* interpreter salts with a seed drawn when it starts. Two of the orders it can
\* give: ascending (seed 0) and descending (seed 1).
Seeds == {0, 1}

RECURSIVE SetOrder(_, _)
SetOrder(seed, S) ==
    IF S = {} THEN <<>>
    ELSE LET m == IF seed = 0 THEN CHOOSE x \in S : \A y \in S : x <= y
                  ELSE CHOOSE x \in S : \A y \in S : x >= y
         IN <<m>> \o SetOrder(seed, S \ {m})

\* lines 301-305
YieldedResults(d, seed) ==
    IF d # <<>>
    THEN [i \in 1..Len(d) |->
            Fail("interpolation-issues", <<d[i].title, SetOrder(seed, d[i].names)>>)]
    ELSE << Pass("No interpolation issues found.") >>

InitInterp ==
    /\ check = "interpolation_issues"
    /\ pc = "start"
    /\ axes = <<>> /\ usWeightClass = 400 /\ hasSTAT = FALSE /\ AxisValue = <<>>
    /\ instances \in SeqsUpTo([subfamilyNameID : NameIDs,
                               coordinates : {<< <<"wght", 400>> >>}], MaxInstances)
    /\ results = <<>> /\ returned = None
    /\ font_instances = <<>> /\ g_index = 0 /\ glyphs = <<>> /\ errs = <<>>
    /\ hashSeed = 0 /\ rerun = FALSE /\ glyfRead = <<>> /\ prevResults = <<>>

InitRerun ==
    /\ check = "interpolation_issues"
    /\ pc = "start"
    /\ axes = <<>> /\ usWeightClass = 400 /\ hasSTAT = FALSE /\ AxisValue = <<>>
    /\ instances \in SeqsUpTo([subfamilyNameID : NameIDs,
                               coordinates : {<< <<"wght", 400>> >>}], MaxInstances)
    /\ results = <<>> /\ returned = None
    /\ font_instances = <<>> /\ g_index = 0 /\ glyphs = <<>> /\ errs = <<>>
    /\ hashSeed = 0 /\ rerun = TRUE /\ glyfRead = <<>> /\ prevResults = <<>>

\* lines 237-245
Materialize ==
    /\ check = "interpolation_issues" /\ pc = "start"
    /\ font_instances' = MaterializeFrom(<<>>, instances, 1)
    /\ errs' = <<>>
    /\ g_index' = 0
    /\ pc' = "loop"
    /\ UNCHANGED <<check, axes, usWeightClass, hasSTAT, AxisValue, instances,
                   results, returned, glyphs, hashSeed, rerun, glyfRead,
                   prevResults>>

\* lines 246-249: the next glyph name is taken and its outline gathered from every
\* instance font. The font is immutable: the outlines of a glyph are drawn when
\* the glyph is first read, and remembered when the check is to run again on
\* the same font.
GatherGlyphs ==
    /\ check = "interpolation_issues" /\ pc = "loop"
    /\ g_index < Len(GlyphOrder)
    /\ \E gl \in [1..Len(font_instances) -> ShapeIds] :
        /\ g_index < Len(glyfRead) => gl = glyfRead[g_index + 1]
        /\ glyphs' = gl
        /\ glyfRead' = IF rerun /\ g_index >= Len(glyfRead)
                       THEN Append(glyfRead, gl) ELSE glyfRead
    /\ g_index' = g_index + 1
    /\ pc' = "compare"
    /\ UNCHANGED <<check, axes, usWeightClass, hasSTAT, AxisValue, instances,
                   results, returned, font_instances, errs, hashSeed, rerun,
                   prevResults>>

\* lines 251-299 for the gathered list. Nothing reads the list afterwards (line
\* 247 replaces it), so it is dropped here.
CompareGlyphs ==
    /\ check = "interpolation_issues" /\ pc = "compare"
    /\ LET g_name == GlyphOrder[g_index]
           outcome == GlyphOutcome(glyphs)
       IN /\ errs' = IF outcome \in {"", "error"} THEN errs
                     ELSE add_dict_set(errs, outcome, g_name)
          /\ pc' = IF outcome = "error" THEN "error" ELSE "loop"
    /\ glyphs' = <<>>
    /\ UNCHANGED <<check, axes, usWeightClass, hasSTAT, AxisValue, instances,
                   results, returned, font_instances, g_index, hashSeed, rerun,
                   glyfRead, prevResults>>

\* lines 301-305, after the last glyph. The hash seed is fixed when the
\* interpreter starts; it is drawn here, where it is first observed.
YieldResults ==
    /\ check = "interpolation_issues" /\ pc = "loop"
    /\ g_index = Len(GlyphOrder)
    /\ \E seed \in Seeds :
        /\ hashSeed' = seed
        /\ results' = YieldedResults(errs, seed)
    /\ pc' = "done"
    /\ UNCHANGED <<check, axes, usWeightClass, hasSTAT, AxisValue, instances,
                   returned, font_instances, g_index, glyphs, errs, rerun,
                   glyfRead, prevResults>>

\* the check is run once more, by a new interpreter, on the same font
RunAgain ==
    /\ check = "interpolation_issues" /\ pc = "done"
    /\ rerun /\ prevResults = <<>>
    /\ prevResults' = results
    /\ results' = <<>>
    /\ font_instances' = <<>> /\ errs' = <<>> /\ glyphs' = <<>> /\ g_index' = 0
    /\ pc' = "start"
    /\ UNCHANGED <<check, axes, usWeightClass, hasSTAT, AxisValue, instances,
                   returned, hashSeed, rerun, glyfRead>>

NextInterp == Materialize \/ GatherGlyphs \/ CompareGlyphs \/ YieldResults

SpecInterp == InitInterp /\ [][NextInterp]_vars

NextRerun == Materialize \/ GatherGlyphs \/ CompareGlyphs \/ YieldResults \/ RunAgain

SpecRerun == InitRerun /\ [][NextRerun]_vars

\* ------------------------------------------------------------------ claims
IsStat == check = "inconsistencies_between_fvar_stat"

IsInterp == check = "interpolation_issues"

\* C1: a variable font without STAT makes the fvar/STAT check yield exactly one
\* result, a FAIL of category missing-stat-table.
C1_MissingStatYieldsOneFail ==
    (IsStat /\ pc = "done" /\ ~hasSTAT)
        => /\ Len(results) = 1
           /\ results[1].status = "FAIL"
           /\ results[1].code = "missing-stat-table"

Statuses(rs) == {rs[i].status : i \in 1..Len(rs)}

PassCount(rs) == Cardinality({i \in 1..Len(rs) : rs[i].status = "PASS"})

\* C2: a finished run of the fvar/STAT check (STAT present, at least one named
\* instance) or of the interpolation check that yielded no FAIL yielded exactly
\* one PASS, and no run yields both a PASS and a FAIL.
C2_ExplicitPass ==
    /\ ((IsStat \/ IsInterp) /\ pc = "done"
        /\ (IsStat => (hasSTAT /\ instances # <<>>))
        /\ "FAIL" \notin Statuses(results))
            => PassCount(results) = 1
    /\ ~({"PASS", "FAIL"} \subseteq Statuses(results))

\* a STAT record covers (axis_tag, value)
Covers(r, axis_tag, value) ==
    /\ DesignAxisTag(r.AxisIndex) = axis_tag
    /\ \/ r.Format \in {1, 3} /\ r.Value = value
       \/ r.Format = 3 /\ r.LinkedValue = value
       \/ r.Format = 2 /\ r.NominalValue = value

CoveredInStat(axis_tag, value) ==
    \E i \in 1..Len(AxisValue) : Covers(AxisValue[i], axis_tag, value)

IsMissingValue(r) == r.code = "missing-fvar-instance-axis-value"

MissingCount(k, name, axis_tag, value) ==
    Cardinality({i \in 1..Len(results) :
        IsMissingValue(results[i]) /\ results[i].detail = <<k, name, axis_tag, value>>})

Resolved(k) == getDebugName(instances[k].subfamilyNameID) # None

\* C3: with STAT present, every coordinate (axis tag, value) of every instance
\* whose name resolves gets exactly one missing-fvar-instance-axis-value finding
\* when no STAT record of that axis covers the value (format 1/3 Value, format 3
\* LinkedValue, format 2 NominalValue; never format 4), none when one does, and
\* there are no other findings of that category.
C3_CoverageFindings ==
    (IsStat /\ pc = "done" /\ hasSTAT) =>
        /\ \A k \in 1..Len(instances) : Resolved(k) =>
            \A j \in 1..Len(instances[k].coordinates) :
                LET name == getDebugName(instances[k].subfamilyNameID)[1]
                    axis_tag == instances[k].coordinates[j][1]
                    value == instances[k].coordinates[j][2]
                IN MissingCount(k, name, axis_tag, value)
                        = (IF CoveredInStat(axis_tag, value) THEN 0 ELSE 1)
        /\ \A i \in 1..Len(results) : IsMissingValue(results[i]) =>
            LET k == results[i].detail[1]
            IN /\ k \in 1..Len(instances) /\ Resolved(k)
               /\ \E j \in 1..Len(instances[k].coordinates) :
                    /\ instances[k].coordinates[j]
                            = <<results[i].detail[3], results[i].detail[4]>>
                    /\ ~CoveredInStat(results[i].detail[3], results[i].detail[4])

\* C3 witness: one coordinate is covered by the LinkedValue of a format-3 record
\* alone, another is reported although a format-4 record of its axis carries it.
C3_Witness ==
    /\ IsStat /\ pc = "done" /\ hasSTAT
    /\ \E k \in 1..Len(instances) : \E j \in 1..Len(instances[k].coordinates) :
        LET c == instances[k].coordinates[j]
        IN /\ Resolved(k)
           /\ CoveredInStat(c[1], c[2])
           /\ \A i \in 1..Len(AxisValue) : Covers(AxisValue[i], c[1], c[2]) =>
                (AxisValue[i].Format = 3 /\ AxisValue[i].Value # c[2])
    /\ \E i \in 1..Len(results) : \E r \in 1..Len(AxisValue) :
        /\ IsMissingValue(results[i])
        /\ AxisValue[r].Format = 4
        /\ DesignAxisTag(AxisValue[r].AxisIndex) = results[i].detail[3]
        /\ AxisValue[r].Value = results[i].detail[4]

WghtAxes == {i \in 1..Len(axes) : axes[i].axisTag = "wght"}

\* the integer a value given in halves truncates to
Truncated(halves) ==
    CHOOSE t \in -1000..1000 :
        \/ halves >= 0 /\ 2 * t <= halves /\ halves < 2 * t + 2
        \/ halves < 0 /\ 2 * t >= halves /\ halves > 2 * t - 2

\* C4: the weight-class check yields nothing without a wght axis; with one (the
\* last of that tag) it yields exactly one result, a bad-weight-class FAIL when
\* usWeightClass differs from the default truncated to an integer, else a PASS.
C4_WeightClass ==
    (check = "weight_class_fvar" /\ pc = "done") =>
        IF WghtAxes = {} THEN results = <<>>
        ELSE LET last == CHOOSE i \in WghtAxes : \A j \in WghtAxes : j <= i
                 expected == Truncated(axes[last].defaultValue)
             IN /\ Len(results) = 1
                /\ IF usWeightClass # expected
                   THEN results[1].status = "FAIL"
                        /\ results[1].code = "bad-weight-class"
                   ELSE results[1].status = "PASS"

\* C4 witness: a default of 400.5 against usWeightClass 400 passes.
C4_Witness ==
    /\ check = "weight_class_fvar" /\ pc = "done"
    /\ Len(axes) >= 1
    /\ axes[Len(axes)] = [axisTag |-> "wght", defaultValue |-> 801]
    /\ usWeightClass = 400
    /\ Len(results) = 1 /\ results[1].status = "PASS"

\* C5: once materialized, the instance fonts the comparison iterates over are the
\* fvar instances, one each, in fvar order.
C5_InstancesPreserved ==
    (IsInterp /\ pc \in {"loop", "compare", "done", "error"}) =>
        /\ Len(font_instances) = Len(instances)
        /\ \A k \in 1..Len(font_instances) : font_instances[k].font = k

Present(gl) == {i \in 1..Len(gl) : gl[i] # Absent}

HasPoints(gl) == \E i \in Present(gl) : Shape(gl[i]).coordinates # <<>>

\* the point counts of the outlines, an outline without points counting as 0
PointCounts(gl) == {Len(Shape(gl[i]).coordinates) : i \in Present(gl)}

Reported(d, title, g_name) ==
    \E i \in 1..Len(d) : d[i].title = title /\ g_name \in d[i].names

ReportedAnywhere(d, g_name) == \E i \in 1..Len(d) : g_name \in d[i].names

\* a pass of the loop body that ends without an exception
Compared == IsInterp /\ pc = "compare" /\ pc' = "loop"

\* C6: a glyph no instance has points for is never reported; any other glyph is
\* reported under the point-count title exactly when its outlines' point counts
\* (0 for an outline without points) take more than one value.
C6_PointCount ==
    [][Compared =>
        IF ~HasPoints(glyphs) THEN ~ReportedAnywhere(errs', GlyphOrder[g_index])
        ELSE Reported(errs', TitlePoints, GlyphOrder[g_index])
                <=> Cardinality(PointCounts(glyphs)) > 1]_vars

PassesTopology(gl) ==
    /\ Cardinality(points_set(gl)) = 1
    /\ Cardinality(contours_set(gl)) <= 1
    /\ Present(gl) = 1..Len(gl)
    /\ Cardinality(composite_set(gl)) <= 1
    /\ Cardinality(components_set(gl)) <= 1

\* the points n-1 and n (0-based) exist in the outline
HasSegment(id, n) == n >= 1 /\ n + 1 <= Len(Shape(id).coordinates)

\* bearing of the segment from point n-1 to point n (0-based), in 1/1000 degree
Bearing(id, n) ==
    LET pts == Shape(id).coordinates
    IN atan2_degrees(pts[n + 1][2] - pts[n][2], pts[n + 1][1] - pts[n][1])

Into360(deg) == IF deg < 0 THEN deg + 360000 ELSE deg

MoreThan45(a, b) == Abs(a - b) > 45000 /\ Abs(Into360(a) - Into360(b)) > 45000

\* C7: a glyph that passes the four topology checks is reported under the
\* end-point-direction title exactly when some contour end n of an instance and
\* the instance before it have final-segment bearings that differ by more than
\* 45 degrees both raw and normalized into [0, 360); 45 itself is tolerated.
C7_Direction ==
    [][(Compared /\ PassesTopology(glyphs)) =>
        (Reported(errs', TitleDirection, GlyphOrder[g_index])
            <=> \E i \in 2..Len(glyphs) :
                    \E c \in 1..Len(Shape(glyphs[i]).endPtsOfContours) :
                        LET n == Shape(glyphs[i]).endPtsOfContours[c]
                        IN /\ HasSegment(glyphs[i], n)
                           /\ HasSegment(glyphs[i - 1], n)
                           /\ MoreThan45(Bearing(glyphs[i], n),
                                         Bearing(glyphs[i - 1], n)))]_vars

\* C7 witness: the first glyph was reported for its direction, and the second
\* one, whose bearings differ by exactly 45 degrees (0/45 raw, 180/-135 after
\* normalization), is being compared.
C7_Witness ==
    /\ IsInterp /\ pc = "compare" /\ g_index = 2
    /\ glyphs = <<"X", "Y">>
    /\ Reported(errs, TitleDirection, 1)

\* C8: a second run of the interpolation check on the same font yields what the
\* first run yielded, message for message, glyph names in the same order.
C8_SameResultsTwice ==
    (IsInterp /\ pc = "done" /\ prevResults # <<>>) => results = prevResults

TopologyTitles == <<TitlePoints, TitleContours, TitleComposite, TitleComponents>>

Violated(gl) ==
    << Cardinality(points_set(gl)) > 1,
       Cardinality(contours_set(gl)) > 1,
       Cardinality({Shape(gl[i]).isComposite : i \in Present(gl)}) > 1,
       Cardinality(components_set(gl)) > 1 >>

AllTitles == {TitlePoints, TitleContours, TitleComposite, TitleComponents,
              TitleDirection}

\* C9: a glyph name stands under at most one title; a glyph with points that
\* violates one of the four structural properties is reported under the first
\* violated one (point count, contour count, composite status, components) and
\* under nothing else, and the direction title is only given to a glyph that
\* violates none of them.
C9_FirstViolationOnly ==
    /\ [](\A i \in 1..Len(errs) : \A j \in 1..Len(errs) :
            i # j => (errs[i].title # errs[j].title
                      /\ errs[i].names \cap errs[j].names = {}))
    /\ [][Compared =>
            LET g_name == GlyphOrder[g_index]
                v == Violated(glyphs)
                firsts == {p \in 1..4 : v[p] /\ \A q \in 1..(p - 1) : ~v[q]}
            IN IF ~HasPoints(glyphs) THEN ~ReportedAnywhere(errs', g_name)
               ELSE IF firsts # {}
               THEN \A t \in AllTitles :
                        Reported(errs', t, g_name)
                            <=> \E p \in firsts : t = TopologyTitles[p]
               ELSE \A p \in 1..4 : ~Reported(errs', TopologyTitles[p], g_name)]_vars

\* C9 witness: the first glyph stands under the contour title, and the second
\* one, which differs in point count and in contour count, is being compared.
C9_Witness ==
    /\ IsInterp /\ pc = "compare" /\ g_index = 2
    /\ glyphs = <<"five_points", "one_contour">>
    /\ errs = << [title |-> TitleContours, names |-> {1}] >>

\* C10: the interpolation check never ends in an exception.
C10_NeverAborts == pc # "error"

====
